---- MODULE Spec2Model ----
(***************************************************************************)
(* The FashionMNIST notebooks: 6-optimization.ipynb (hyperparameters,      *)
(* train_loop, test_loop, the epoch loop, torch.save) and 7-inference.ipynb *)
(* (load_state_dict, eval, onnx.export, onnxruntime session).              *)
(*                                                                         *)
(* Numbers.  A tensor is a record [shape, data] with row-major data, as    *)
(* torch stores it.  Values are fixed point: the integer v stands for      *)
(* v / Unit, and Unit is the denominator of learning_rate = 1e-3, so one   *)
(* SGD step of a gradient of 1.0 moves a parameter by one integer.         *)
(* The layer widths 28*28, 512 and 10 are scaled down to ImgH * ImgW,      *)
(* Hidden and NumClasses; the stage sequence is the notebooks'.            *)
(***************************************************************************)
EXTENDS Integers, Sequences, FiniteSets, TLC

\* ------------------------------------------------------------- bounds
ImgH == 1
ImgW == 2
Hidden == 2
NumClasses == 3
MaxSeed == 1

\* ---------------------------------------------------- program constants
\* learning_rate = 1e-3 = LrNum / LrDen
LrNum == 1
LrDen == 1000
Unit == LrDen
\* DataLoader(training_data, batch_size=64), DataLoader(test_data, batch_size=64)
LoaderBatchSize == 64
\* the hyperparameter cell, and the epoch-loop cell that rebinds epochs
HyperBatchSize == 64
HyperEpochs == 5
LoopEpochs == 10
\* if batch % 100 == 0
LogEvery == 100

\* ------------------------------------------------------------- tensors
RECURSIVE SumTo(_, _)
SumTo(f, n) == IF n = 0 THEN 0 ELSE f[n] + SumTo(f, n - 1)

RECURSIVE ProdFrom(_, _)
ProdFrom(s, i) == IF i > Len(s) THEN 1 ELSE s[i] * ProdFrom(s, i + 1)

Numel(shape) == ProdFrom(shape, 1)

\* a sequence given by a rule, laid out as a contiguous array
Array(f) == <<>> \o f

Tensor(shape, data) == [shape |-> shape, data |-> Array(data)]

Zeros(shape) == Tensor(shape, [i \in 1..Numel(shape) |-> 0])

\* row n (1-based) of a tensor whose first dimension is the batch dimension
Row(tn, n) ==
    LET w == Numel(tn.shape) \div tn.shape[1]
    IN  Array([k \in 1..w |-> tn.data[(n - 1) * w + k]])

\* (variant) start_dim = 0: the batch dimension is flattened too
FlattenAll(tn) == Tensor(<<1, Numel(tn.shape)>>, tn.data)

\* nn.Flatten(): start_dim = 1, the first dimension is kept
Flatten(tn) ==
    Tensor(<<tn.shape[1], ProdFrom(tn.shape, 2)>>, tn.data)

\* nn.Linear: input * weight^T + bias, weight of shape (out, in)
Linear(w, b, tn) ==
    LET nOut == w.shape[1]
        nIn == w.shape[2]
        rows == tn.shape[1]
    IN  Tensor(<<rows, nOut>>,
               [i \in 1..(rows * nOut) |->
                   LET n == (i - 1) \div nOut
                       j == (i - 1) % nOut
                   IN  (SumTo([k \in 1..nIn |->
                                  w.data[j * nIn + k] * tn.data[n * nIn + k]],
                              nIn) \div Unit) + b.data[j + 1]])

\* (variant) negative values pass unchanged
LeakyReLU(tn) == Tensor(tn.shape, tn.data)

\* nn.ReLU: max(0, x) elementwise
ReLU(tn) ==
    Tensor(tn.shape, [i \in DOMAIN tn.data |->
                         IF tn.data[i] > 0 THEN tn.data[i] ELSE 0])

\* ------------------------------------------------------- NeuralNetwork
FlatDim == ImgH * ImgW

ParamNames == <<"linear_relu_stack.0.weight", "linear_relu_stack.0.bias",
                "linear_relu_stack.2.weight", "linear_relu_stack.2.bias",
                "linear_relu_stack.4.weight", "linear_relu_stack.4.bias">>

ParamShapes == <<  <<Hidden, FlatDim>>, <<Hidden>>,
                   <<Hidden, Hidden>>, <<Hidden>>,
                   <<NumClasses, Hidden>>, <<NumClasses>>  >>

\* (variant) the second ReLU is left out
StackWithoutSecondReLU(P, tn) ==
    LET s0 == Linear(P[1], P[2], tn)
        s1 == ReLU(s0)
        s2 == Linear(P[3], P[4], s1)
        s4 == Linear(P[5], P[6], s2)
        s5 == ReLU(s4)
    IN  s5

\* nn.Sequential: the stages in their defined order
Stack(P, tn) ==
    LET s0 == Linear(P[1], P[2], tn)
        s1 == ReLU(s0)
        s2 == Linear(P[3], P[4], s1)
        s3 == ReLU(s2)
        s4 == Linear(P[5], P[6], s3)
        s5 == ReLU(s4)
    IN  s5

\* NeuralNetwork.forward
Forward(P, tn) == Stack(P, Flatten(tn))

\* pred.argmax(1) for one row: the 0-based index of the first maximum
RECURSIVE ArgmaxFrom(_, _, _)
ArgmaxFrom(v, i, best) ==
    IF i > Len(v) THEN best - 1
    ELSE ArgmaxFrom(v, i + 1, IF v[i] > v[best] THEN i ELSE best)

Argmax(v) == ArgmaxFrom(v, 2, 1)

\* ------------------------------------------------------------ datasets
\* datasets.FashionMNIST(..., transform=ToTensor()): sample i is an image of
\* shape (1, ImgH, ImgW) with pixels in [0, 1] and a label in 0..NumClasses-1.
\* The images are fixed data; seed picks which fixed data.
Pixel(seed, i, k) == (((i + seed) * (k + 1) + k) % 3) * (Unit \div 2)

Label(seed, i) == (i + 2 * seed) % NumClasses

Dataset(n, seed) == [size |-> n, seed |-> seed]

\* the default collate of a DataLoader: stacks dataset[i] for the batch's indices
CollateX(ds, idxs) ==
    Tensor(<<Len(idxs), 1, ImgH, ImgW>>,
           [e \in 1..(Len(idxs) * FlatDim) |->
               Pixel(ds.seed, idxs[((e - 1) \div FlatDim) + 1], ((e - 1) % FlatDim) + 1)])

CollateY(ds, idxs) == Array([n \in 1..Len(idxs) |-> Label(ds.seed, idxs[n])])

\* (variant) the pass walks the dataset from its end
BatchIndicesReversed(ds, pos, bs) ==
    LET hi == IF pos + bs < ds.size THEN pos + bs ELSE ds.size
    IN  Array([n \in 1..(hi - pos) |-> ds.size - pos - n])

\* (variant) the last batch is filled up to bs indices
BatchIndicesPadded(ds, pos, bs) == Array([n \in 1..bs |-> pos + n - 1])

\* the indices a DataLoader with shuffle=False, drop_last=False yields for the
\* batch that starts at sampler position pos
BatchIndices(ds, pos, bs) ==
    LET hi == IF pos + bs < ds.size THEN pos + bs ELSE ds.size
    IN  Array([n \in 1..(hi - pos) |-> pos + n - 1])

\* ------------------------------------------------------------ loss_fn
\* (variant) the difference is taken the other way round
SampleLossNegated(scores, label) == scores[label + 1] - scores[Argmax(scores) + 1]

\* nn.CrossEntropyLoss(), reduction 'mean': the mean over the batch of
\* logsumexp(scores) - scores[label], with logsumexp taken as the maximum
SampleLoss(scores, label) == scores[Argmax(scores) + 1] - scores[label + 1]

CrossEntropyLoss(pred, y) ==
    LET rows == pred.shape[1]
    IN  SumTo([n \in 1..rows |-> SampleLoss(Row(pred, n), y[n])], rows) \div rows

\* ----------------------------------------------------------- autograd
\* loss.backward(): d loss / d parameter for every parameter, by the chain rule
\* through the six stages, one sample at a time.
Vec(w, b, x) ==
    Array([j \in 1..w.shape[1] |->
        (SumTo([k \in 1..w.shape[2] |-> w.data[(j - 1) * w.shape[2] + k] * x[k]],
               w.shape[2]) \div Unit) + b.data[j]])

Pos(v) == Array([i \in DOMAIN v |-> IF v[i] > 0 THEN v[i] ELSE 0])

Mask(z, d) == Array([i \in DOMAIN d |-> IF z[i] > 0 THEN d[i] ELSE 0])

\* weight^T * d
BackVec(w, d) ==
    Array([k \in 1..w.shape[2] |->
        SumTo([j \in 1..w.shape[1] |-> w.data[(j - 1) * w.shape[2] + k] * d[j]],
              w.shape[1]) \div Unit])

Outer(d, h) ==
    Array([e \in 1..(Len(d) * Len(h)) |->
        (d[((e - 1) \div Len(h)) + 1] * h[((e - 1) % Len(h)) + 1]) \div Unit])

SampleGrad(P, x, label) ==
    LET z1 == Vec(P[1], P[2], x)
        h1 == Pos(z1)
        z2 == Vec(P[3], P[4], h1)
        h2 == Pos(z2)
        z3 == Vec(P[5], P[6], h2)
        out == Pos(z3)
        am == Argmax(out)
        dOut == Array([j \in 1..Len(out) |->
                    (IF j = am + 1 THEN Unit ELSE 0) - (IF j = label + 1 THEN Unit ELSE 0)])
        d3 == Mask(z3, dOut)
        d2 == Mask(z2, BackVec(P[5], d3))
        d1 == Mask(z1, BackVec(P[3], d2))
    IN  << Outer(d1, x), d1, Outer(d2, h1), d2, Outer(d3, h2), d3 >>

\* the gradient of the batch's mean loss: the mean of the samples' gradients
BatchGrad(P, X, y) ==
    LET rows == X.shape[1]
        flat == Flatten(X)
        g == Array([n \in 1..rows |-> SampleGrad(P, Row(flat, n), y[n])])
    IN  Array([p \in 1..Len(P) |->
            Tensor(P[p].shape,
                   [e \in 1..Numel(P[p].shape) |->
                       SumTo([n \in 1..rows |-> g[n][p][e]], rows) \div rows])])

\* ------------------------------------------------------- model state
\* nn.Linear's random initialisation; seed picks the random draw
InitValue(seed, p, e) == (((seed * 11 + p * 2 + e * e * 5 + e) % 5) - 1) * (Unit \div 2)

InitParams(seed) ==
    Array([p \in 1..Len(ParamShapes) |->
        Tensor(ParamShapes[p],
               [e \in 1..Numel(ParamShapes[p]) |-> InitValue(seed, p, e)])])

\* nn.Sequential(nn.Linear(28*28, 512), nn.ReLU(), nn.Linear(512, 512), nn.ReLU(),
\* nn.Linear(512, 10), nn.ReLU()) as the optimization notebook's class lists it
OptimizationStack ==
    << [op |-> "Linear", in_features |-> FlatDim, out_features |-> Hidden],
       [op |-> "ReLU", in_features |-> 0, out_features |-> 0],
       [op |-> "Linear", in_features |-> Hidden, out_features |-> Hidden],
       [op |-> "ReLU", in_features |-> 0, out_features |-> 0],
       [op |-> "Linear", in_features |-> Hidden, out_features |-> NumClasses],
       [op |-> "ReLU", in_features |-> 0, out_features |-> 0] >>

\* (variant) the inference notebook's class has one more output
InferenceStackWide ==
    << [op |-> "Linear", in_features |-> FlatDim, out_features |-> Hidden],
       [op |-> "ReLU", in_features |-> 0, out_features |-> 0],
       [op |-> "Linear", in_features |-> Hidden, out_features |-> Hidden],
       [op |-> "ReLU", in_features |-> 0, out_features |-> 0],
       [op |-> "Linear", in_features |-> Hidden, out_features |-> NumClasses + 1],
       [op |-> "ReLU", in_features |-> 0, out_features |-> 0] >>

\* the same list as the inference notebook's class has it
InferenceStack ==
    << [op |-> "Linear", in_features |-> FlatDim, out_features |-> Hidden],
       [op |-> "ReLU", in_features |-> 0, out_features |-> 0],
       [op |-> "Linear", in_features |-> Hidden, out_features |-> Hidden],
       [op |-> "ReLU", in_features |-> 0, out_features |-> 0],
       [op |-> "Linear", in_features |-> Hidden, out_features |-> NumClasses],
       [op |-> "ReLU", in_features |-> 0, out_features |-> 0] >>

\* the positions (from 1) of the stages of a stack that own parameters
LinearPositions(stack) ==
    LET IsLinear(i) == stack[i].op = "Linear"
    IN  SelectSeq(Array([i \in 1..Len(stack) |-> i]), IsLinear)

\* the names nn.Module gives the parameters: attribute, 0-based position in
\* the Sequential, weight before bias
StackParamNames(stack) ==
    LET at == LinearPositions(stack)
    IN  Array([p \in 1..(2 * Len(at)) |->
            "linear_relu_stack." \o ToString(at[(p + 1) \div 2] - 1)
                \o (IF p % 2 = 1 THEN ".weight" ELSE ".bias")])

\* nn.Linear(in, out): weight (out, in), bias (out)
StackParamShapes(stack) ==
    LET at == LinearPositions(stack)
    IN  Array([p \in 1..(2 * Len(at)) |->
            LET l == stack[at[(p + 1) \div 2]]
            IN  IF p % 2 = 1 THEN <<l.out_features, l.in_features>>
                ELSE <<l.out_features>>])

\* the parameters a freshly constructed module of that stack holds
FreshParams(stack, seed) ==
    LET shapes == StackParamShapes(stack)
    IN  Array([p \in 1..Len(shapes) |->
            Tensor(shapes[p], [e \in 1..Numel(shapes[p]) |-> InitValue(seed, p, e)])])

\* an initial draw of nn.Linear's parameters in which the last stage has no
\* positive weight or bias
NonPositiveHead(P) ==
    Array([p \in 1..Len(P) |->
        IF p >= Len(P) - 1
        THEN Tensor(P[p].shape, [i \in DOMAIN P[p].data |->
                                    IF P[p].data[i] > 0 THEN 0 - P[p].data[i]
                                    ELSE P[p].data[i]])
        ELSE P[p]])

ZeroGrads == Array([p \in 1..Len(ParamShapes) |-> Zeros(ParamShapes[p])])

\* (variant) the mapping holds the weights only
StateDictWeights(P) ==
    [name \in {ParamNames[p] : p \in {q \in 1..Len(ParamNames) : q % 2 = 1}} |->
        P[CHOOSE p \in 1..Len(ParamNames) : ParamNames[p] = name]]

\* model.state_dict(): the named mapping of the parameters
StateDict(P) ==
    [name \in {ParamNames[p] : p \in 1..Len(ParamNames)} |->
        P[CHOOSE p \in 1..Len(ParamNames) : ParamNames[p] = name]]

\* the dataset sizes and seeds a run is checked for
TrainSizes == {1, 64, 129}
TestSizes == {5, 70}
\* training sets long enough for a batch index of LogEvery: exactly LogEvery
\* batches, and one sample more
LongTrainSizes == {LogEvery * LoaderBatchSize, LogEvery * LoaderBatchSize + 1}
ShortTestSizes == {5}

VARIABLES
    pc,            \* the statement the optimization notebook is at
    training_data, test_data,
    params,        \* model.parameters()
    grad,          \* the parameters' .grad buffers
    learning_rate, batch_size, epochs,    \* the hyperparameter names
    optimizer,     \* the SGD optimizer's lr
    t,             \* the epoch loop variable
    pos,           \* the running DataLoader iterator's sampler position
    batch,         \* enumerate's counter
    idxs,          \* the dataset indices of the batch (X, y)
    pred, loss,    \* locals of train_loop / test_loop
    size, test_loss, correct,
    no_grad,       \* inside `with torch.no_grad()`
    stdout,        \* the printed lines
    file,          \* data/model.pth
    hist,          \* history: what the optimization notebook has done so far
    ipc,           \* the statement the inference notebook is at
    inf,           \* the inference notebook's names: model, x, y, session, result
    onnx_file,     \* data/model.onnx
    ihist          \* history: what the inference run has done so far

vars == <<pc, training_data, test_data, params, grad, learning_rate, batch_size,
          epochs, optimizer, t, pos, batch, idxs, pred, loss, size, test_loss,
          correct, no_grad, stdout, file, hist, ipc, inf, onnx_file, ihist>>

infvars == <<ipc, inf, onnx_file, ihist>>

trainvars == <<pc, training_data, test_data, params, grad, learning_rate, batch_size,
               epochs, optimizer, t, pos, batch, idxs, pred, loss, size, test_loss,
               correct, no_grad, stdout, hist>>

data == <<training_data, test_data>>
hypers == <<learning_rate, batch_size, epochs>>
locals == <<pos, batch, idxs, pred, loss, size, test_loss, correct>>

NoTensor == Tensor(<<0>>, <<>>)
NoFile == [exists |-> FALSE]
NoInference == [model |-> <<>>, training |-> TRUE, x |-> NoTensor, y |-> 0,
                session |-> NoFile, result |-> NoTensor, stdout |-> <<>>]
NoInferenceYet == [fileReads |-> 0, exports |-> 0, runs |-> 0, loaded |-> <<>>,
                   fresh |-> <<>>, steps |-> <<>>, exported |-> <<>>]

X == CollateX(training_data, idxs)
y == CollateY(training_data, idxs)
TestX == CollateX(test_data, idxs)
TestY == CollateY(test_data, idxs)

\* the state after the cells that load the data, build the model, set the
\* hyperparameters, create loss_fn and the optimizer and define the two loops,
\* with f what data/model.pth is on disk
StartedOn(f, ns, ms, inits) ==
    /\ pc = "loop_setup"
    /\ \E n \in ns, m \in ms, init \in inits :
          /\ training_data = Dataset(n, init[1])
          /\ test_data = Dataset(m, init[1] + 1)
          /\ params = init[2]
    /\ grad = ZeroGrads
    /\ learning_rate = <<LrNum, LrDen>>
    /\ batch_size = HyperBatchSize
    /\ epochs = HyperEpochs
    /\ optimizer = [lr |-> <<LrNum, LrDen>>]
    /\ t = 0
    /\ pos = 0
    /\ batch = 0
    /\ idxs = <<>>
    /\ pred = NoTensor
    /\ loss = [kind |-> "none", value |-> 0]
    /\ size = 0
    /\ test_loss = 0
    /\ correct = 0
    /\ no_grad = FALSE
    /\ stdout = <<>>
    /\ file = f
    /\ hist = [steps |-> <<>>,        \* the steps done for the current training batch
               fetched |-> 0,         \* training batches fetched so far
               writes |-> 0,          \* assignments to the parameters so far
               covered |-> 0,         \* samples 0..covered-1 were consumed, in order, in this pass
               preStep |-> params,    \* the parameters before the last optimizer.step()
               lastStep |-> params,   \* the parameters as the last optimizer.step() left them
               evals |-> 0,           \* test_loop calls that have returned
               evaluated |-> 0,       \* test samples evaluated in this test_loop call
               preEval |-> params,    \* the parameters when test_loop was last called
               preEvalGrad |-> grad,  \* the .grad buffers when test_loop was last called
               fileWrites |-> 0]      \* torch.save calls so far
    /\ ipc = "idle"
    /\ inf = NoInference
    /\ onnx_file = NoFile
    /\ ihist = NoInferenceYet

\* the data seeds with the parameters model = NeuralNetwork() draws
Draws == {<<seed, InitParams(seed)>> : seed \in 0..MaxSeed}

Started(f) == StartedOn(f, TrainSizes, TestSizes, Draws)

\* a first run: no data/model.pth yet
Init == Started(NoFile)

\* --------------------------------------------------- the epoch-loop cell
\* One notebook runs at a time: a statement of the optimization notebook runs
\* while the inference notebook is idle.
PrintLine(line) == stdout' = Append(stdout, line)

\* loss_fn = nn.CrossEntropyLoss(); optimizer = torch.optim.SGD(model.parameters(),
\* lr=learning_rate); epochs = 10
LoopSetup ==
    /\ pc = "loop_setup"
    /\ ipc = "idle"
    /\ optimizer' = [lr |-> learning_rate]
    /\ epochs' = LoopEpochs
    /\ t' = 0
    /\ pc' = "epoch"
    /\ UNCHANGED <<infvars, data, params, grad, learning_rate, batch_size, locals, no_grad,
                   stdout, file, hist>>

\* (variant) the loop runs for the epoch count of the hyperparameter cell
EpochNextHyper ==
    /\ pc = "epoch"
    /\ ipc = "idle"
    /\ IF t < HyperEpochs
       THEN /\ PrintLine([kind |-> "epoch", epoch |-> t + 1])
            /\ pc' = "call_train"
       ELSE /\ UNCHANGED stdout
            /\ pc' = "done"
    /\ UNCHANGED <<infvars, data, params, grad, hypers, optimizer, t, locals, no_grad, file, hist>>

\* for t in range(epochs): print(f"Epoch {t+1}...")
EpochNext ==
    /\ pc = "epoch"
    /\ ipc = "idle"
    /\ IF t < epochs
       THEN /\ PrintLine([kind |-> "epoch", epoch |-> t + 1])
            /\ pc' = "call_train"
       ELSE /\ UNCHANGED stdout
            /\ pc' = "done"
    /\ UNCHANGED <<infvars, data, params, grad, hypers, optimizer, t, locals, no_grad, file, hist>>

\* train_loop(train_dataloader, model, loss_fn, optimizer): size = len(dataloader.dataset),
\* and enumerate(dataloader) starts a fresh pass
TrainEnter ==
    /\ pc = "call_train"
    /\ ipc = "idle"
    /\ size' = training_data.size
    /\ pos' = 0
    /\ batch' = -1
    /\ pc' = "train_next"
    /\ hist' = [hist EXCEPT !.covered = 0]
    /\ UNCHANGED <<infvars, data, params, grad, hypers, optimizer, t, idxs, pred, loss,
                   test_loss, correct, no_grad, stdout, file>>

\* (variant) the loop is left after its first batch
TrainNextOnce ==
    /\ pc = "train_next"
    /\ ipc = "idle"
    /\ IF pos = 0
       THEN /\ idxs' = BatchIndices(training_data, pos, LoaderBatchSize)
            /\ pos' = pos + Len(idxs')
            /\ batch' = batch + 1
            /\ pc' = "forward"
            /\ hist' = [hist EXCEPT !.steps = <<>>, !.fetched = @ + 1,
                                    !.covered = Len(idxs')]
       ELSE /\ pc' = "call_test"
            /\ UNCHANGED <<idxs, pos, batch, hist>>
    /\ UNCHANGED <<infvars, data, params, grad, hypers, optimizer, t, pred, loss, size,
                   test_loss, correct, no_grad, stdout, file>>

\* for batch, (X, y) in enumerate(dataloader): the next batch, or the end of the pass
TrainNext ==
    /\ pc = "train_next"
    /\ ipc = "idle"
    /\ IF pos < training_data.size
       THEN /\ idxs' = BatchIndices(training_data, pos, LoaderBatchSize)
            /\ pos' = pos + Len(idxs')
            /\ batch' = batch + 1
            /\ pc' = "forward"
            /\ hist' = [hist EXCEPT
                   !.steps = <<>>,
                   !.fetched = @ + 1,
                   !.covered = IF /\ @ >= 0
                                  /\ \A n \in 1..Len(idxs') : idxs'[n] = @ + n - 1
                               THEN @ + Len(idxs') ELSE -1]
       ELSE /\ pc' = "call_test"
            /\ UNCHANGED <<idxs, pos, batch, hist>>
    /\ UNCHANGED <<infvars, data, params, grad, hypers, optimizer, t, pred, loss, size,
                   test_loss, correct, no_grad, stdout, file>>

\* pred = model(X)
TrainForward ==
    /\ pc = "forward"
    /\ ipc = "idle"
    /\ pred' = Forward(params, X)
    /\ pc' = "loss"
    /\ hist' = [hist EXCEPT !.steps = Append(@, "forward")]
    /\ UNCHANGED <<infvars, data, params, grad, hypers, optimizer, t, pos, batch, idxs, loss,
                   size, test_loss, correct, no_grad, stdout, file>>

\* loss = loss_fn(pred, y)
TrainLoss ==
    /\ pc = "loss"
    /\ ipc = "idle"
    /\ loss' = [kind |-> "tensor", value |-> CrossEntropyLoss(pred, y)]
    /\ pc' = "zero_grad"
    /\ hist' = [hist EXCEPT !.steps = Append(@, "loss")]
    /\ UNCHANGED <<infvars, data, params, grad, hypers, optimizer, t, pos, batch, idxs, pred,
                   size, test_loss, correct, no_grad, stdout, file>>

\* (variant) the gradients are not reset
SkipZeroGrad ==
    /\ pc = "zero_grad"
    /\ ipc = "idle"
    /\ pc' = "backward"
    /\ hist' = [hist EXCEPT !.steps = Append(@, "zero_grad")]
    /\ UNCHANGED <<infvars, data, params, grad, hypers, optimizer, t, locals, no_grad,
                   stdout, file>>

\* optimizer.zero_grad()
ZeroGrad ==
    /\ pc = "zero_grad"
    /\ ipc = "idle"
    /\ grad' = ZeroGrads
    /\ pc' = "backward"
    /\ hist' = [hist EXCEPT !.steps = Append(@, "zero_grad")]
    /\ UNCHANGED <<infvars, data, params, hypers, optimizer, t, locals, no_grad, stdout, file>>

\* gradients add up in the .grad buffers
Accumulate(g, d) ==
    Array([p \in 1..Len(g) |->
        Tensor(g[p].shape, [e \in DOMAIN g[p].data |-> g[p].data[e] + d[p].data[e]])])

\* loss.backward()
Backward ==
    /\ pc = "backward"
    /\ ipc = "idle"
    /\ IF loss.kind = "tensor"
       THEN LET d == BatchGrad(params, X, y)
            IN  /\ grad' = Accumulate(grad, d)
                /\ hist' = [hist EXCEPT !.steps = Append(@, "backward")]
                /\ pc' = "step"
       ELSE \* a float has no backward(): AttributeError
            /\ pc' = "error"
            /\ UNCHANGED <<grad, hist>>
    /\ UNCHANGED <<infvars, data, params, hypers, optimizer, t, locals, no_grad, stdout, file>>

\* SGD without momentum or weight decay: p = p - lr * p.grad
SgdUpdate(P, g, lr) ==
    Array([p \in 1..Len(P) |->
        Tensor(P[p].shape,
               [e \in DOMAIN P[p].data |->
                   P[p].data[e] - ((lr[1] * g[p].data[e]) \div lr[2])])])

\* optimizer.step()
OptimizerStep ==
    /\ pc = "step"
    /\ ipc = "idle"
    /\ params' = SgdUpdate(params, grad, optimizer.lr)
    /\ pc' = "log"
    /\ hist' = [hist EXCEPT !.steps = Append(@, "step"), !.writes = @ + 1,
                            !.preStep = params, !.lastStep = params']
    /\ UNCHANGED <<infvars, data, grad, hypers, optimizer, t, locals, no_grad, stdout, file>>

\* (variant) the logging statement steps the optimizer once more
TrainLogSteps ==
    /\ pc = "log"
    /\ ipc = "idle"
    /\ params' = SgdUpdate(params, grad, optimizer.lr)
    /\ hist' = [hist EXCEPT !.writes = @ + 1]
    /\ pc' = "train_next"
    /\ UNCHANGED <<infvars, data, grad, hypers, optimizer, t, locals, no_grad, stdout, file>>

\* (variant) the logging branch also resets the gradients
TrainLogZeroes ==
    /\ pc = "log"
    /\ ipc = "idle"
    /\ IF batch % LogEvery = 0
       THEN /\ loss' = [kind |-> "float", value |-> loss.value]
            /\ PrintLine([kind |-> "loss", loss |-> loss.value,
                      current |-> batch * Len(idxs), size |-> size])
            /\ grad' = ZeroGrads
       ELSE UNCHANGED <<loss, stdout, grad>>
    /\ pc' = "train_next"
    /\ UNCHANGED <<infvars, data, params, hypers, optimizer, t, pos, batch, idxs, pred,
                   size, test_loss, correct, no_grad, file, hist>>

\* (variant) the batches are counted from one
TrainLogOneBased ==
    /\ pc = "log"
    /\ ipc = "idle"
    /\ IF (batch + 1) % LogEvery = 0
       THEN /\ loss' = [kind |-> "float", value |-> loss.value]
            /\ PrintLine([kind |-> "loss", loss |-> loss.value,
                      current |-> batch * Len(idxs), size |-> size])
       ELSE UNCHANGED <<loss, stdout>>
    /\ pc' = "train_next"
    /\ UNCHANGED <<infvars, data, params, grad, hypers, optimizer, t, pos, batch, idxs, pred,
                   size, test_loss, correct, no_grad, file, hist>>

\* if batch % 100 == 0: loss, current = loss.item(), batch * len(X); print(...)
TrainLog ==
    /\ pc = "log"
    /\ ipc = "idle"
    /\ IF batch % LogEvery = 0
       THEN /\ loss' = [kind |-> "float", value |-> loss.value]
            /\ PrintLine([kind |-> "loss", loss |-> loss.value,
                      current |-> batch * Len(idxs), size |-> size])
       ELSE UNCHANGED <<loss, stdout>>
    /\ pc' = "train_next"
    /\ UNCHANGED <<infvars, data, params, grad, hypers, optimizer, t, pos, batch, idxs, pred,
                   size, test_loss, correct, no_grad, file, hist>>

\* ------------------------------------------------------------ test_loop
\* size = len(dataloader.dataset); test_loss, correct = 0, 0; with torch.no_grad():
TestEnter ==
    /\ pc = "call_test"
    /\ ipc = "idle"
    /\ size' = test_data.size
    /\ test_loss' = 0
    /\ correct' = 0
    /\ no_grad' = TRUE
    /\ pos' = 0
    /\ pc' = "test_next"
    /\ hist' = [hist EXCEPT !.evaluated = 0, !.covered = 0,
                            !.preEval = params, !.preEvalGrad = grad]
    /\ UNCHANGED <<infvars, data, params, grad, hypers, optimizer, t, batch, idxs, pred, loss,
                   stdout, file>>

\* for X, y in dataloader: the next batch, or the end of the pass and of the with block
TestNext ==
    /\ pc = "test_next"
    /\ ipc = "idle"
    /\ IF pos < test_data.size
       THEN /\ idxs' = BatchIndices(test_data, pos, LoaderBatchSize)
            /\ pos' = pos + Len(idxs')
            /\ pc' = "test_forward"
            /\ hist' = [hist EXCEPT
                   !.covered = IF /\ @ >= 0
                                  /\ \A n \in 1..Len(idxs') : idxs'[n] = @ + n - 1
                               THEN @ + Len(idxs') ELSE -1]
            /\ UNCHANGED no_grad
       ELSE /\ no_grad' = FALSE
            /\ pc' = "test_report"
            /\ UNCHANGED <<idxs, pos, hist>>
    /\ UNCHANGED <<infvars, data, params, grad, hypers, optimizer, t, batch, pred, loss, size,
                   test_loss, correct, stdout, file>>

\* pred = model(X)
TestForward ==
    /\ pc = "test_forward"
    /\ ipc = "idle"
    /\ pred' = Forward(params, TestX)
    /\ pc' = "test_accumulate"
    /\ UNCHANGED <<infvars, data, params, grad, hypers, optimizer, t, pos, batch, idxs, loss,
                   size, test_loss, correct, no_grad, stdout, file, hist>>

\* (pred.argmax(1) == y).type(torch.float).sum().item()
CountCorrect(p, labels) ==
    Cardinality({n \in 1..p.shape[1] : Argmax(Row(p, n)) = labels[n]})

\* (variant) the evaluation steps the optimizer
TestAccumulateSteps ==
    /\ pc = "test_accumulate"
    /\ ipc = "idle"
    /\ test_loss' = test_loss + CrossEntropyLoss(pred, TestY)
    /\ correct' = correct + CountCorrect(pred, TestY)
    /\ params' = SgdUpdate(params, grad, optimizer.lr)
    /\ pc' = "test_next"
    /\ hist' = [hist EXCEPT !.evaluated = @ + pred.shape[1]]
    /\ UNCHANGED <<infvars, data, grad, hypers, optimizer, t, pos, batch, idxs, pred,
                   loss, size, no_grad, stdout, file>>

\* test_loss += loss_fn(pred, y).item(); correct += (pred.argmax(1) == y)...sum().item()
TestAccumulate ==
    /\ pc = "test_accumulate"
    /\ ipc = "idle"
    /\ test_loss' = test_loss + CrossEntropyLoss(pred, TestY)
    /\ correct' = correct + CountCorrect(pred, TestY)
    /\ pc' = "test_next"
    /\ hist' = [hist EXCEPT !.evaluated = @ + pred.shape[1]]
    /\ UNCHANGED <<infvars, data, params, grad, hypers, optimizer, t, pos, batch, idxs, pred,
                   loss, size, no_grad, stdout, file>>

\* (variant) integer division
FloorDivide(a, b) == a \div b

\* Python's true division of two numbers, as a fixed-point value
Divide(a, b) == (a * Unit) \div b

\* (variant) every epoch's evaluation also saves a checkpoint
TestReportSaves ==
    /\ pc = "test_report"
    /\ ipc = "idle"
    /\ test_loss' = test_loss \div size
    /\ correct' = Divide(correct, size)
    /\ PrintLine([kind |-> "test", accuracy |-> correct', avg_loss |-> test_loss'])
    /\ t' = t + 1
    /\ pc' = "epoch"
    /\ file' = [exists |-> TRUE, dict |-> StateDict(params)]
    /\ hist' = [hist EXCEPT !.evals = @ + 1, !.fileWrites = @ + 1]
    /\ UNCHANGED <<infvars, data, params, grad, hypers, optimizer, pos, batch, idxs, pred, loss,
                   size, no_grad>>

\* test_loss /= size; correct /= size; print(f"Test Error: Accuracy ..., Avg loss ...")
TestReport ==
    /\ pc = "test_report"
    /\ ipc = "idle"
    /\ test_loss' = test_loss \div size
    /\ correct' = Divide(correct, size)
    /\ PrintLine([kind |-> "test", accuracy |-> correct', avg_loss |-> test_loss'])
    /\ t' = t + 1
    /\ pc' = "epoch"
    /\ hist' = [hist EXCEPT !.evals = @ + 1]
    /\ UNCHANGED <<infvars, data, params, grad, hypers, optimizer, pos, batch, idxs, pred, loss,
                   size, no_grad, file>>

\* print("Done!")
Done ==
    /\ pc = "done"
    /\ ipc = "idle"
    /\ PrintLine([kind |-> "done"])
    /\ pc' = "save"
    /\ UNCHANGED <<infvars, data, params, grad, hypers, optimizer, t, locals, no_grad, file, hist>>

\* torch.save(model.state_dict(), "data/model.pth"); print("Saved ...")
Save ==
    /\ pc = "save"
    /\ ipc = "idle"
    /\ file' = [exists |-> TRUE, dict |-> StateDict(params)]
    /\ PrintLine([kind |-> "saved"])
    /\ pc' = "end"
    /\ hist' = [hist EXCEPT !.fileWrites = @ + 1]
    /\ UNCHANGED <<infvars, data, params, grad, hypers, optimizer, t, locals, no_grad>>

\* ------------------------------------------------- 7-inference.ipynb
\* the notebook is run from the top, before the optimization notebook has
\* started or after it has ended
InferStart ==
    /\ ipc = "idle"
    /\ pc \in {"loop_setup", "end"}
    /\ ipc' = "construct"
    /\ UNCHANGED <<trainvars, file, inf, onnx_file, ihist>>

\* model = NeuralNetwork()
Construct ==
    /\ ipc = "construct"
    /\ \E seed \in 0..MaxSeed :
          inf' = [inf EXCEPT !.model = FreshParams(InferenceStack, seed),
                             !.training = TRUE]
    /\ ipc' = "load"
    /\ ihist' = [ihist EXCEPT !.fresh = inf'.model, !.steps = Append(@, "construct")]
    /\ UNCHANGED <<trainvars, file, onnx_file>>

\* (variant) only the keys are compared
MatchesKeys(dict, P) == DOMAIN dict = {ParamNames[p] : p \in 1..Len(P)}

\* load_state_dict(strict=True): the keys and the shapes must be the model's
Matches(dict, P) ==
    /\ DOMAIN dict = {ParamNames[p] : p \in 1..Len(P)}
    /\ \A p \in 1..Len(P) : dict[ParamNames[p]].shape = P[p].shape

\* what load_state_dict has copied when it raises: the stored tensors whose
\* name and shape are a parameter's
PartialLoad(dict, P) ==
    Array([p \in 1..Len(P) |->
        IF ParamNames[p] \in DOMAIN dict /\ dict[ParamNames[p]].shape = P[p].shape
        THEN dict[ParamNames[p]] ELSE P[p]])

\* (variant) only the weights are taken from the file
LoadWeightsOnly(dict, P) ==
    Array([p \in 1..Len(P) |-> IF p % 2 = 1 THEN dict[ParamNames[p]] ELSE P[p]])

\* every parameter is overwritten by the stored tensor of its name
LoadStateDict(dict, P) == Array([p \in 1..Len(P) |-> dict[ParamNames[p]]])

\* model.load_state_dict(torch.load('data/model.pth'))
Load ==
    /\ ipc = "load"
    /\ IF ~file.exists
       THEN \* FileNotFoundError
            /\ ipc' = "error"
            /\ UNCHANGED <<inf, ihist>>
       ELSE IF ~Matches(file.dict, inf.model)
       THEN \* RuntimeError: missing keys, unexpected keys or size mismatch
            /\ ipc' = "error"
            /\ inf' = [inf EXCEPT !.model = PartialLoad(file.dict, inf.model)]
            /\ ihist' = [ihist EXCEPT !.fileReads = @ + 1]
       ELSE /\ inf' = [inf EXCEPT !.model = LoadStateDict(file.dict, inf.model)]
            /\ ihist' = [ihist EXCEPT !.fileReads = @ + 1, !.loaded = inf'.model,
                                      !.steps = Append(@, "load")]
            /\ ipc' = "eval"
    /\ UNCHANGED <<trainvars, file, onnx_file>>

\* (variant) the model is left in training mode
EvalLeavesTraining ==
    /\ ipc = "eval"
    /\ ipc' = "export"
    /\ ihist' = [ihist EXCEPT !.steps = Append(@, "eval")]
    /\ UNCHANGED <<trainvars, file, inf, onnx_file>>

\* model.eval()
Eval ==
    /\ ipc = "eval"
    /\ inf' = [inf EXCEPT !.training = FALSE]
    /\ ipc' = "export"
    /\ ihist' = [ihist EXCEPT !.steps = Append(@, "eval")]
    /\ UNCHANGED <<trainvars, file, onnx_file>>

\* (variant) the last Relu is not recorded
TraceWithoutLastRelu(P, input) ==
    <<[op |-> "Flatten", axis |-> 1]>> \o
    [i \in 1..(Len(P) - 1) |->
        IF i % 2 = 1 THEN [op |-> "Gemm", B |-> P[i], C |-> P[i + 1]]
                     ELSE [op |-> "Relu"]]

\* the operations torch.onnx records while the model runs on the trace input:
\* flatten, and one Gemm (with the weight and bias values as constants) and one
\* Relu per linear/ReLU pair
Trace(P, input) ==
    <<[op |-> "Flatten", axis |-> 1]>> \o
    [i \in 1..Len(P) |->
        IF i % 2 = 1 THEN [op |-> "Gemm", B |-> P[i], C |-> P[i + 1]]
                     ELSE [op |-> "Relu"]]

\* input_image = torch.zeros((1,28,28)); onnx.export(model, input_image, onnx_model):
\* the traced stages with the parameters' current values
Export ==
    /\ ipc = "export"
    /\ LET input_image == Zeros(<<1, ImgH, ImgW>>)
       IN  onnx_file' = [exists |-> TRUE, nodes |-> Trace(inf.model, input_image),
                         input_shape |-> input_image.shape,
                         training |-> inf.training]
    /\ ihist' = [ihist EXCEPT !.exports = @ + 1, !.exported = inf.model,
                              !.steps = Append(@, "export")]
    /\ ipc' = "sample"
    /\ UNCHANGED <<trainvars, file, inf>>

\* (variant) the sample is given a batch dimension
LoadSampleBatched ==
    /\ ipc = "sample"
    /\ inf' = [inf EXCEPT
           !.x = Tensor(<<1, 1, ImgH, ImgW>>,
                        [k \in 1..FlatDim |-> Pixel(test_data.seed, 0, k)]),
           !.y = Label(test_data.seed, 0)]
    /\ ipc' = "session"
    /\ ihist' = [ihist EXCEPT !.steps = Append(@, "sample")]
    /\ UNCHANGED <<trainvars, file, onnx_file>>

\* test_data = datasets.FashionMNIST(train=False, ...); x, y = test_data[0][0], test_data[0][1]
LoadSample ==
    /\ ipc = "sample"
    /\ inf' = [inf EXCEPT
           !.x = Tensor(<<1, ImgH, ImgW>>,
                        [k \in 1..FlatDim |-> Pixel(test_data.seed, 0, k)]),
           !.y = Label(test_data.seed, 0)]
    /\ ipc' = "session"
    /\ ihist' = [ihist EXCEPT !.steps = Append(@, "sample")]
    /\ UNCHANGED <<trainvars, file, onnx_file>>

\* session = onnxruntime.InferenceSession(onnx_model, None)
Session ==
    /\ ipc = "session"
    /\ IF onnx_file.exists
       THEN /\ inf' = [inf EXCEPT !.session = onnx_file]
            /\ ihist' = [ihist EXCEPT !.steps = Append(@, "session")]
            /\ ipc' = "run"
       ELSE /\ ipc' = "error"
            /\ UNCHANGED <<inf, ihist>>
    /\ UNCHANGED <<trainvars, file, onnx_file>>

\* the runtime evaluates one node of the graph
RunNode(node, tn) ==
    CASE node.op = "Flatten" -> Tensor(<<tn.shape[1], ProdFrom(tn.shape, node.axis + 1)>>, tn.data)
      [] node.op = "Gemm" -> Linear(node.B, node.C, tn)
      [] node.op = "Relu" -> ReLU(tn)

\* the nodes of the graph from node i on, each fed the output of the one before
RECURSIVE RunNodes(_, _, _)
RunNodes(nodes, i, tn) ==
    IF i > Len(nodes) THEN tn ELSE RunNodes(nodes, i + 1, RunNode(nodes[i], tn))

\* the exported graph run on an input
OnnxRun(graph, input) == RunNodes(graph.nodes, 1, input)

\* result = session.run([output_name], {input_name: x.numpy()})
Run ==
    /\ ipc = "run"
    /\ IF inf.x.shape = inf.session.input_shape
       THEN /\ inf' = [inf EXCEPT !.result = OnnxRun(inf.session, inf.x)]
            /\ ihist' = [ihist EXCEPT !.runs = @ + 1, !.steps = Append(@, "run")]
            /\ ipc' = "predict"
       ELSE \* InvalidArgument: the input has not the traced shape
            /\ ipc' = "error"
            /\ UNCHANGED <<inf, ihist>>
    /\ UNCHANGED <<trainvars, file, onnx_file>>

\* predicted, actual = classes[result[0][0].argmax(0)], classes[y]; print(...)
Predict ==
    /\ ipc = "predict"
    /\ inf' = [inf EXCEPT !.stdout = Append(@,
                  [kind |-> "prediction", predicted |-> Argmax(Row(inf.result, 1)),
                   actual |-> inf.y])]
    /\ ipc' = "end"
    /\ ihist' = [ihist EXCEPT !.steps = Append(@, "predict")]
    /\ UNCHANGED <<trainvars, file, onnx_file>>

\* the notebook's kernel is shut down; a later run starts from the top
InferClose ==
    /\ ipc \in {"end", "error"}
    /\ ipc' = "idle"
    /\ inf' = NoInference
    /\ ihist' = [NoInferenceYet EXCEPT !.exported = ihist.exported]
    /\ UNCHANGED <<trainvars, file, onnx_file>>

Next ==
    \/ LoopSetup
    \/ EpochNext
    \/ TrainEnter
    \/ TrainNext
    \/ TrainForward
    \/ TrainLoss
    \/ ZeroGrad
    \/ Backward
    \/ OptimizerStep
    \/ TrainLog
    \/ TestEnter
    \/ TestNext
    \/ TestForward
    \/ TestAccumulate
    \/ TestReport
    \/ Done
    \/ Save
    \/ InferStart
    \/ Construct
    \/ Load
    \/ Eval
    \/ Export
    \/ LoadSample
    \/ Session
    \/ Run
    \/ Predict
    \/ InferClose

Spec == Init /\ [][Next]_vars

\* the same notebooks on a training set of more than LogEvery batches
InitLong == StartedOn(NoFile, LongTrainSizes, ShortTestSizes, {<<0, InitParams(0)>>})

SpecLong == InitLong /\ [][Next]_vars

\* the same notebooks, also for draws whose last stage has no positive
\* weight or bias
InitHead ==
    StartedOn(NoFile, {LoaderBatchSize}, TestSizes,
              Draws \cup {<<seed, NonPositiveHead(InitParams(seed))>> : seed \in 0..MaxSeed})

SpecHead == InitHead /\ [][Next]_vars

\* ------------------------------------------ the inference notebook alone
\* data/model.pth as another session may have left it: a state_dict of this
\* model, or of a model with a parameter less, a parameter more or a wider
\* last stage
WithoutKey(dict, name) == [k \in DOMAIN dict \ {name} |-> dict[k]]

WithKey(dict, name, tn) ==
    [k \in DOMAIN dict \cup {name} |-> IF k = name THEN tn ELSE dict[k]]

FilesOnDisk ==
    {NoFile} \cup
    {[exists |-> TRUE, dict |-> d] :
        d \in UNION {
            LET sd == StateDict(InitParams(seed))
            IN  { sd,
                  WithoutKey(sd, ParamNames[Len(ParamNames)]),
                  WithKey(sd, "linear_relu_stack.6.weight", Zeros(<<NumClasses, NumClasses>>)),
                  WithKey(sd, ParamNames[Len(ParamNames) - 1],
                          Zeros(<<NumClasses + 1, Hidden>>)) } :
            seed \in 0..MaxSeed }}

InitInfer == \E f \in FilesOnDisk : Started(f)

NextInfer ==
    \/ InferStart
    \/ Construct
    \/ Load
    \/ Eval
    \/ Export
    \/ LoadSample
    \/ Session
    \/ Run
    \/ Predict
    \/ InferClose

SpecInfer == InitInfer /\ [][NextInfer]_vars

\* --------------------------------------------------- runs with failures
\* (variant) an except clause saves a checkpoint before the run stops
RaiseAfterSave ==
    /\ pc \notin {"end", "error"}
    /\ ipc = "idle"
    /\ pc' = "error"
    /\ file' = [exists |-> TRUE, dict |-> StateDict(params)]
    /\ UNCHANGED <<infvars, data, params, grad, hypers, optimizer, t, locals, no_grad,
                   stdout, hist>>

\* a statement of the optimization notebook raises (out of memory, a dataset
\* file that cannot be read): no try/except is around any of them, the
\* exception reaches the top level and the run stops
Raise ==
    /\ pc \notin {"end", "error"}
    /\ ipc = "idle"
    /\ pc' = "error"
    /\ UNCHANGED <<infvars, data, params, grad, hypers, optimizer, t, locals, no_grad,
                   stdout, file, hist>>

\* a statement of the inference notebook raises (onnxruntime unavailable, the
\* dataset missing): the run stops
InferRaise ==
    /\ ipc \notin {"idle", "end", "error"}
    /\ ipc' = "error"
    /\ UNCHANGED <<trainvars, file, inf, onnx_file, ihist>>

\* data/model.pth is absent or was left by a model with a wider last stage
InitFail ==
    \E f \in {NoFile,
               [exists |-> TRUE,
                dict |-> WithKey(StateDict(InitParams(0)), ParamNames[Len(ParamNames) - 1],
                                 Zeros(<<NumClasses + 1, Hidden>>))]} :
        Started(f)

NextFail ==
    \/ Next
    \/ Raise
    \/ InferRaise

SpecFail == InitFail /\ [][NextFail]_vars

\* ================================================================ claims
Min(a, b) == IF a < b THEN a ELSE b

\* ceil(n / batch size): the batches of one pass over n samples
NumBatches(n) == (n + LoaderBatchSize - 1) \div LoaderBatchSize

TrainBody == {"forward", "loss", "zero_grad", "backward", "step", "log"}
TestBody == {"test_next", "test_forward", "test_accumulate", "test_report"}

\* the indices k*B .. min((k+1)*B, n) - 1
Chunk(k, n) ==
    Array([i \in 1..(Min((k + 1) * LoaderBatchSize, n) - k * LoaderBatchSize) |->
              k * LoaderBatchSize + i - 1])

\* C1: in every epoch batch k of train_loop holds exactly the samples
\* k*B .. min((k+1)*B, N)-1 in dataset order, the batches fetched so far cover
\* the samples 0 .. pos-1 once each, and the finished pass covers all N.
C1_BatchesInOrder ==
    /\ pc \in TrainBody => idxs = Chunk(batch, training_data.size)
    /\ pc \in TrainBody \cup {"train_next"} => hist.covered = pos
    /\ pc = "call_test" => hist.covered = training_data.size

\* the last, one-sample batch of the second epoch of a 129-sample run
C1_Witness ==
    /\ pc = "forward"
    /\ t = 1
    /\ batch = 2
    /\ idxs = <<128>>

IsPrefix(a, b) == Len(a) <= Len(b) /\ \A i \in 1..Len(a) : a[i] = b[i]

BatchSteps == <<"forward", "loss", "zero_grad", "backward", "step">>

\* C2: the steps of a training batch happen in the order forward, loss,
\* zero_grad, backward, step; the parameters are assigned once per batch, by
\* the step and by nothing else; and the forward pass of a batch reads the
\* parameters as the previous step left them.
C2_StepOrder ==
    /\ IsPrefix(hist.steps, BatchSteps)
    /\ hist.writes = IF hist.fetched = 0 THEN 0
                     ELSE hist.fetched - 1 + (IF hist.steps = BatchSteps THEN 1 ELSE 0)
    /\ params = hist.lastStep
    /\ pc = "loss" => pred = Forward(hist.lastStep, X)

\* a forward pass that follows an update which changed the parameters
C2_Witness ==
    /\ pc = "loss"
    /\ hist.fetched >= 2
    /\ hist.lastStep # hist.preStep

\* C3: the update of batch k is exactly -learning_rate times the gradient of
\* batch k's own loss, taken at the parameters the batch was run with: no
\* earlier gradient, momentum or decay enters.
C3_PlainSgd ==
    pc = "log" =>
        params = SgdUpdate(hist.preStep, BatchGrad(hist.preStep, X, y), <<LrNum, LrDen>>)

\* a later update that moved the parameters, after an earlier one did
C3_Witness ==
    /\ pc = "log"
    /\ hist.writes >= 2
    /\ params # hist.preStep
    /\ hist.preStep # InitParams(training_data.seed)

\* C4 as stated: every batch of train_loop and of test_loop holds exactly
\* batch_size samples, the last one included.
C4_EveryBatchFull ==
    pc \in TrainBody \cup {"test_forward", "test_accumulate"} =>
        Len(idxs) = LoaderBatchSize

PassSize == IF pc \in TrainBody THEN training_data.size ELSE test_data.size

\* C4, amended: a batch holds batch_size samples except the last batch of a
\* pass over N samples when 64 does not divide N, which holds the N mod 64
\* remaining ones (32 of the 60000 training samples, 16 of the 10000 test ones).
C4_BatchSizes ==
    /\ pc \in TrainBody \cup {"test_forward", "test_accumulate"} =>
          /\ pos <= PassSize
          /\ Len(idxs) = IF pos = PassSize /\ PassSize % LoaderBatchSize # 0
                         THEN PassSize % LoaderBatchSize
                         ELSE LoaderBatchSize
    /\ Len(BatchIndices(Dataset(60000, 0), 59968, LoaderBatchSize)) = 32
    /\ Len(BatchIndices(Dataset(10000, 0), 9984, LoaderBatchSize)) = 16

\* the six-sample last batch of a 70-sample test pass
C4_Witness ==
    /\ pc = "test_forward"
    /\ test_data.size = 70
    /\ Len(idxs) = 6

Printed(kind) == \E i \in 1..Len(stdout) : stdout[i].kind = kind

\* C5: the evaluation of epoch t runs after all NumBatches updates of epoch
\* t, no update of epoch t+1 happens before it has returned, every
\* evaluation covers the whole test set, and "Done!" is printed after the
\* evaluation of the last epoch.
C5_EpochOrder ==
    LET nb == NumBatches(training_data.size)
    IN  /\ pc \in TestBody \cup {"call_test"} =>
              hist.writes = (t + 1) * nb /\ hist.evals = t
        /\ pc \in TrainBody \cup {"call_train", "train_next"} =>
              /\ hist.evals = t
              /\ hist.writes >= t * nb
              /\ hist.writes <= (t + 1) * nb
        /\ pc = "epoch" => hist.writes = t * nb /\ hist.evals = t
        /\ hist.evals > 0 /\ pc \notin TestBody => hist.evaluated = test_data.size
        /\ Printed("done") => hist.evals = epochs /\ hist.writes = epochs * nb

\* "Done!" has been printed
C5_Witness ==
    /\ pc = "save"
    /\ Printed("done")
    /\ hist.evals = LoopEpochs

\* C6: test_loop leaves the model as it found it: from its call to its
\* return the parameters and the gradient buffers keep the values they had
\* when it was called.
C6_TestLoopReadOnly ==
    (pc \in TestBody \/ (pc = "epoch" /\ hist.evals >= 1)) =>
        /\ params = hist.preEval
        /\ grad = hist.preEvalGrad

\* test_loop has returned on a trained model whose gradient buffers are not zero
C6_Witness ==
    /\ pc = "epoch"
    /\ hist.evals >= 1
    /\ test_data.size = 70
    /\ grad # ZeroGrads
    /\ params # InitParams(training_data.seed)

\* the test samples the model classifies correctly, one sample at a time
RefCorrect ==
    Cardinality({i \in 0..(test_data.size - 1) :
        Argmax(Row(Forward(params, CollateX(test_data, <<i>>)), 1))
            = Label(test_data.seed, i)})

\* the sum of the losses of the batches of the test set
RefLossSum ==
    LET n == test_data.size
    IN  SumTo([k \in 1..NumBatches(n) |->
                  CrossEntropyLoss(Forward(params, CollateX(test_data, Chunk(k - 1, n))),
                                   CollateY(test_data, Chunk(k - 1, n)))],
              NumBatches(n))

\* C7: the accuracy test_loop reports is the number of test samples whose
\* index of maximum score is their label, divided by the total, the average
\* loss is the summed batch loss divided by the total, and the total,
\* len(dataloader.dataset), is the number of samples the loop evaluated, each
\* once.
C7_ReportedMetrics ==
    /\ pc = "test_report" =>
          /\ correct = RefCorrect
          /\ test_loss = RefLossSum
          /\ size = test_data.size
          /\ hist.evaluated = size
          /\ hist.covered = size
    /\ pc = "epoch" /\ hist.evals >= 1 =>
          /\ stdout[Len(stdout)].kind = "test"
          /\ stdout[Len(stdout)].accuracy = (RefCorrect * Unit) \div test_data.size
          /\ stdout[Len(stdout)].avg_loss = RefLossSum \div test_data.size
          /\ hist.evaluated = test_data.size

\* a report over two batches with some, not all, samples classified correctly
C7_Witness ==
    /\ pc = "epoch"
    /\ hist.evals >= 1
    /\ test_data.size = 70
    /\ RefCorrect > 0
    /\ RefCorrect < test_data.size
    /\ RefLossSum > 0

\* C8: every accuracy test_loop reports lies in [0, 1], the correct count
\* never exceeds the number of test samples, and every reported average loss
\* is >= 0.
C8_MetricRanges ==
    /\ \A i \in 1..Len(stdout) :
          stdout[i].kind = "test" =>
              /\ stdout[i].accuracy >= 0
              /\ stdout[i].accuracy <= Unit
              /\ stdout[i].avg_loss >= 0
    /\ pc \in TestBody => correct >= 0 /\ correct <= hist.evaluated /\ test_loss >= 0

\* a report with an accuracy strictly between 0 and 1 and a positive loss
C8_Witness ==
    /\ pc = "epoch"
    /\ hist.evals >= 2
    /\ stdout[Len(stdout)].kind = "test"
    /\ stdout[Len(stdout)].accuracy > 0
    /\ stdout[Len(stdout)].accuracy < Unit
    /\ stdout[Len(stdout)].avg_loss > 0

\* C9: the progress print changes nothing of the training state: the step
\* that runs it leaves the parameters, the gradients, the optimizer, the
\* batch position and the counters as they are, and the float it rebinds
\* loss to is never used, every backward pass reading the loss tensor of its
\* own batch.
C9_PrintObservational ==
    /\ [][pc = "log" => UNCHANGED <<params, grad, optimizer, hypers, data, t, pos, batch,
                                    idxs, pred, size, file, hist>>]_vars
    /\ [](/\ pc # "error"
          /\ pc \in {"zero_grad", "backward"} =>
                loss = [kind |-> "tensor", value |-> CrossEntropyLoss(pred, y)])

\* the batch after a printed one: loss is still the printed float
C9_Witness ==
    /\ pc = "forward"
    /\ loss.kind = "float"
    /\ hist.writes >= 1
    /\ Printed("loss")

\* C10: data/model.pth is written once, after the last update and the last
\* evaluation of the last epoch, with the parameters that update left; an
\* inference run reads it once, before it exports and before it infers.
C10_SnapshotOnce ==
    /\ hist.fileWrites <= 1
    /\ file.exists =>
          /\ hist.fileWrites = 1
          /\ hist.evals = epochs
          /\ hist.writes = epochs * NumBatches(training_data.size)
          /\ file.dict = StateDict(hist.lastStep)
    /\ pc = "end" => file.exists
    /\ ihist.fileReads <= 1
    /\ (\/ ihist.exports > 0
        \/ ihist.runs > 0
        \/ ipc \in {"eval", "export", "sample", "session", "run", "predict", "end"}) =>
          ihist.fileReads = 1 /\ file.exists
    /\ ihist.exports <= 1 /\ ihist.runs <= ihist.exports

\* an inference run that has loaded the file the optimization run wrote
C10_Witness ==
    /\ pc = "end"
    /\ hist.fileWrites = 1
    /\ ipc = "predict"
    /\ ihist.fileReads = 1
    /\ ihist.runs = 1
    /\ file.dict # StateDict(InitParams(training_data.seed))

\* the statements of the inference notebook after the load
AfterLoad == {"eval", "export", "sample", "session", "run", "predict", "end"}

\* the first batch of the test set, as inputs to compare two models on
ProbeX == CollateX(test_data, Chunk(0, test_data.size))

SixNames == {"linear_relu_stack.0.weight", "linear_relu_stack.0.bias",
             "linear_relu_stack.2.weight", "linear_relu_stack.2.bias",
             "linear_relu_stack.4.weight", "linear_relu_stack.4.bias"}

\* P has the six parameters with the shapes the model was constructed with
WellShaped(P) ==
    /\ Len(P) = Cardinality(SixNames)
    /\ \A p \in 1..Len(P) :
          /\ P[p].shape = ParamShapes[p]
          /\ Len(P[p].data) = Numel(ParamShapes[p])

\* C12: in every reachable state the model of either notebook has the same
\* six named parameters with the same shapes, the saved file holds exactly
\* those six names and shapes, and after a load every one of the six entries
\* is the stored tensor of its name.
C12_ParamsStable ==
    /\ WellShaped(params)
    /\ WellShaped(hist.lastStep)
    /\ file.exists =>
          /\ DOMAIN file.dict = SixNames
          /\ \A p \in 1..Len(ParamNames) : file.dict[ParamNames[p]].shape = ParamShapes[p]
    /\ ipc \notin {"idle", "construct"} => WellShaped(inf.model)
    /\ ipc \in AfterLoad =>
          \A p \in 1..Len(ParamNames) : inf.model[p] = file.dict[ParamNames[p]]

\* a load that changed every one of the six entries of the fresh model
C12_Witness ==
    /\ ipc = "eval"
    /\ \A p \in 1..Len(ParamNames) : inf.model[p] # ihist.fresh[p]
    /\ hist.lastStep # InitParams(training_data.seed)

\* data/model.pth holds the six names with the model's shapes
FileFits ==
    /\ file.exists
    /\ DOMAIN file.dict = SixNames
    /\ \A p \in 1..Len(ParamNames) : file.dict[ParamNames[p]].shape = ParamShapes[p]

\* C13: when the stored mapping lacks a key, has an unexpected key or holds a
\* tensor of another shape, the load raises, and evaluation mode, export,
\* runtime inference and the prediction print never run; a run gets past the
\* load only with all six entries taken from a fitting file.
C13_MismatchFailsAtLoad ==
    /\ ipc \in AfterLoad =>
          /\ FileFits
          /\ \A p \in 1..Len(ParamNames) : inf.model[p] = file.dict[ParamNames[p]]
    /\ ipc = "error" => ~FileFits
    /\ ~FileFits =>
          /\ IsPrefix(ihist.steps, <<"construct">>)
          /\ inf.training
          /\ ihist.exports = 0
          /\ ihist.runs = 0
          /\ ~onnx_file.exists
          /\ inf.stdout = <<>>

\* the load has raised on a file with the six names and one other shape,
\* after it copied the entries that fit
C13_Witness ==
    /\ ipc = "error"
    /\ file.exists
    /\ DOMAIN file.dict = SixNames
    /\ ~FileFits
    /\ inf.model # ihist.fresh

\* C14: a statement that fails ends its run there: after a failure of the
\* optimization notebook none of its names, nor its output, nor the file
\* changes again, and no snapshot has been written by that run; after a
\* failure of the inference notebook nothing follows but the end of the
\* session, no graph is written after it and no prediction is printed, and
\* the file is read at most once.
C14_FailureTerminates ==
    /\ [][pc = "error" => UNCHANGED <<trainvars, file>>]_vars
    /\ [][ipc = "error" =>
            /\ ipc' \in {"error", "idle"}
            /\ UNCHANGED <<trainvars, file, onnx_file>>
            /\ ipc' = "error" => UNCHANGED <<inf, ihist>>]_vars
    /\ [](pc = "error" => hist.fileWrites = 0 /\ ~FileFits /\ ~Printed("saved"))
    /\ [](ipc = "error" => inf.stdout = <<>>)
    /\ [](ihist.fileReads <= 1)

\* the optimization run has failed in a later epoch, after updates and an evaluation
C14_Witness ==
    /\ pc = "error"
    /\ hist.writes >= 2
    /\ hist.evals >= 1
    /\ params # InitParams(training_data.seed)

InferSteps == <<"construct", "load", "eval", "export", "sample", "session", "run",
                "predict">>

\* C15: an inference run does construct, load, eval, export, sample, session,
\* run, predict once each in this order; whenever a graph file exists it was
\* exported from the loaded parameters, not the random initial ones, by a
\* model in evaluation mode; and a session exists only on the graph file that
\* the same run has written before.
C15_InferenceOrder ==
    /\ IsPrefix(ihist.steps, InferSteps)
    /\ ipc = "end" => ihist.steps = InferSteps
    /\ ipc \notin {"idle", "error", "end"} => InferSteps[Len(ihist.steps) + 1] = ipc
    /\ onnx_file.exists =>
          /\ ~onnx_file.training
          /\ ihist.exported = hist.lastStep
          /\ onnx_file.nodes = Trace(hist.lastStep, Zeros(<<1, ImgH, ImgW>>))
    /\ inf.session # NoFile =>
          /\ ihist.exports = 1
          /\ inf.session = onnx_file

\* a finished inference run whose exported parameters differ from the fresh model's
C15_Witness ==
    /\ ipc = "end"
    /\ ihist.steps = InferSteps
    /\ ihist.exported # ihist.fresh
    /\ Len(inf.stdout) = 1

\* test sample i as the runtime is given it: one (1, H, W) array
ProbeSample(i) ==
    Tensor(<<1, ImgH, ImgW>>, [k \in 1..FlatDim |-> Pixel(test_data.seed, i, k)])

ProbeIndices == 0..(Min(test_data.size, LoaderBatchSize) - 1)

C17_TraceShape ==
    /\ onnx_file.exists => onnx_file.input_shape = <<1, ImgH, ImgW>>
    /\ ipc \in {"session", "run", "predict", "end"} =>
          /\ inf.x.shape = <<1, ImgH, ImgW>>
          /\ inf.x.shape = onnx_file.input_shape
          /\ Len(inf.x.data) = ImgH * ImgW
    /\ ipc \in {"run", "predict", "end"} => inf.x.shape = inf.session.input_shape
    /\ ipc = "error" => ihist.steps = <<"construct">>
    /\ ipc \in {"predict", "end"} => inf.result.shape = <<1, NumClasses>>

\* session.run has returned for a sample that is not the trace input
C17_Witness ==
    /\ ipc = "predict"
    /\ ihist.runs = 1
    /\ inf.x # Zeros(<<1, ImgH, ImgW>>)
    /\ inf.x.shape = inf.session.input_shape

\* input * weight^T + bias, row by row and element by element, for an input
\* given as a sequence of rows
RefLinear(a, w, b) ==
    Array([n \in 1..Len(a) |->
        Array([j \in 1..Len(b.data) |->
            (SumTo([k \in 1..Len(a[n]) |-> a[n][k] * w.data[(j - 1) * Len(a[n]) + k]],
                   Len(a[n])) \div Unit) + b.data[j]])])

\* max(0, x) of every element
RefReLU(a) ==
    Array([n \in 1..Len(a) |->
        Array([j \in 1..Len(a[n]) |-> IF a[n][j] < 0 THEN 0 ELSE a[n][j]])])

\* stage 6 of ... stage 1 of the batch tn, as a sequence of rows
RefForward(P, tn) ==
    LET a0 == Array([n \in 1..Len(idxs) |->
                  Array([k \in 1..FlatDim |-> tn.data[(n - 1) * FlatDim + k]])])
        a1 == RefReLU(RefLinear(a0, P[1], P[2]))
        a2 == RefReLU(RefLinear(a1, P[3], P[4]))
        a3 == RefReLU(RefLinear(a2, P[5], P[6]))
    IN  a3

\* C18: the scores the forward pass returns for a training or test batch are,
\* element by element, ReLU(linear3(ReLU(linear2(ReLU(linear1(flatten(X)))))))
\* with linear = input * weight^T + bias and ReLU(x) = max(0, x).
C18_ForwardComposition ==
    /\ pc = "loss" =>
          LET ref == RefForward(params, X)
          IN  \A n \in 1..Len(idxs), j \in 1..NumClasses :
                  pred.data[(n - 1) * NumClasses + j] = ref[n][j]
    /\ pc = "test_accumulate" =>
          LET ref == RefForward(params, TestX)
          IN  \A n \in 1..Len(idxs), j \in 1..NumClasses :
                  pred.data[(n - 1) * NumClasses + j] = ref[n][j]

\* a batch for which a hidden stage has a negative value before its ReLU and
\* the model a positive score
C18_Witness ==
    /\ pc = "loss"
    /\ Len(idxs) > 1
    /\ hist.writes >= 1
    /\ \E e \in DOMAIN pred.data : pred.data[e] > 0
    /\ LET h1 == ReLU(Linear(params[1], params[2], Flatten(X)))
           z2 == Linear(params[3], params[4], h1)
       IN  \E e \in DOMAIN z2.data : z2.data[e] < 0

\* C19: for a batch of B samples, B = 1 and a partial last batch included,
\* the batch is a (B, 1, H, W) array, flattening gives a (B, H*W) array with
\* the same values, and the forward pass returns a (B, classes) array: one
\* score per sample and class.
C19_OutputShape ==
    LET x == IF pc = "test_accumulate" THEN TestX ELSE X
    IN  pc \in {"loss", "zero_grad", "backward", "step", "log", "test_accumulate"} =>
            /\ x.shape = <<Len(idxs), 1, ImgH, ImgW>>
            /\ Flatten(x).shape = <<Len(idxs), ImgH * ImgW>>
            /\ Flatten(x).data = x.data
            /\ pred.shape = <<Len(idxs), NumClasses>>
            /\ Len(pred.data) = Len(idxs) * NumClasses

\* the scores of the one-sample last batch of a 129-sample training set
C19_Witness ==
    /\ pc = "loss"
    /\ training_data.size = 129
    /\ Len(idxs) = 1
    /\ pred.shape = <<1, NumClasses>>

\* C20 as stated: the run executes as many epochs as the hyperparameter cell
\* defines, the data loaders' batch size is the batch_size hyperparameter,
\* the optimizer's learning rate is the learning_rate hyperparameter, and
\* none of the three names changes from the first batch on.
C20_HypersDriveRun ==
    /\ [](pc \in TrainBody \cup TestBody => t < HyperEpochs)
    /\ [](Printed("done") =>
             /\ hist.evals = HyperEpochs
             /\ hist.writes = HyperEpochs * NumBatches(training_data.size))
    /\ [](batch_size = LoaderBatchSize /\ optimizer.lr = learning_rate)
    /\ [][hist.fetched >= 1 => UNCHANGED hypers]_vars

\* the steps of one train_loop call: its entry, seven statements a batch, and
\* the fetch that finds the pass finished
TrainPassSteps == 2 + 7 * NumBatches(training_data.size)

\* the steps of one test_loop call: its entry, three statements a batch, the
\* fetch that finds the pass finished, and the report
TestPassSteps == 3 + 3 * NumBatches(test_data.size)

EpochSteps == 1 + TrainPassSteps + TestPassSteps

\* the steps after the evaluation of epoch t, up to the end of the save cell
StepsAfterEpoch == (epochs - t - 1) * EpochSteps + 3

FromTrainNext ==
    7 * NumBatches(training_data.size - pos) + 1 + TestPassSteps + StepsAfterEpoch

FromTestNext == 3 * NumBatches(test_data.size - pos) + 2 + StepsAfterEpoch

\* the number of statements the optimization notebook has still to run
StepsLeft ==
    CASE pc = "loop_setup" -> 1 + LoopEpochs * EpochSteps + 3
      [] pc = "epoch" -> (epochs - t) * EpochSteps + 3
      [] pc = "call_train" -> TrainPassSteps + TestPassSteps + StepsAfterEpoch
      [] pc = "train_next" -> FromTrainNext
      [] pc = "forward" -> 6 + FromTrainNext
      [] pc = "loss" -> 5 + FromTrainNext
      [] pc = "zero_grad" -> 4 + FromTrainNext
      [] pc = "backward" -> 3 + FromTrainNext
      [] pc = "step" -> 2 + FromTrainNext
      [] pc = "log" -> 1 + FromTrainNext
      [] pc = "call_test" -> TestPassSteps + StepsAfterEpoch
      [] pc = "test_next" -> FromTestNext
      [] pc = "test_forward" -> 2 + FromTestNext
      [] pc = "test_accumulate" -> 1 + FromTestNext
      [] pc = "test_report" -> 1 + StepsAfterEpoch
      [] pc = "done" -> 2
      [] pc = "save" -> 1
      [] pc = "end" -> 0
      [] OTHER -> -1

\* C21: a run of the optimization notebook ends after a fixed number of
\* statements, whatever the losses are: every statement it runs brings the
\* end one step nearer, no statement stops it before, and when "Done!" is
\* printed it has made exactly epochs * ceil(N / 64) parameter updates and
\* epochs evaluations.
C21_Terminates ==
    /\ [][StepsLeft' = StepsLeft - 1]_<<trainvars, file>>
    /\ [](StepsLeft >= 0 /\ (StepsLeft = 0 <=> pc = "end"))
    /\ [](Printed("done") =>
             /\ epochs = LoopEpochs
             /\ hist.evals = epochs
             /\ hist.writes = epochs * NumBatches(training_data.size)
             /\ hist.fetched = hist.writes)
    /\ [](pc = "end" => Printed("done"))

\* a finished run over three batches an epoch whose batch losses were not all zero
C21_Witness ==
    /\ pc = "end"
    /\ training_data.size = 129
    /\ hist.writes = LoopEpochs * 3
    /\ hist.evals = LoopEpochs
    /\ \E i \in 1..Len(stdout) : stdout[i].kind = "loss" /\ stdout[i].loss > 0

\* the output of the last linear stage for a batch
LastLinear(P, tn) ==
    Linear(P[5], P[6], ReLU(Linear(P[3], P[4], ReLU(Linear(P[1], P[2], Flatten(tn))))))

\* C22 as stated: the value the model returns for each class is the
\* unmodified output of its last linear stage, negative values included.
C22_RawLogits ==
    /\ pc = "loss" => pred = LastLinear(params, X)
    /\ pc = "test_accumulate" => pred = LastLinear(params, TestX)

\* ceil(a / b)
CeilDiv(a, b) == (a + b - 1) \div b

\* the number of progress lines printed since the last "Epoch" header
RECURSIVE LossLinesFrom(_, _)
LossLinesFrom(out, i) ==
    IF i = 0 \/ out[i].kind = "epoch" THEN 0
    ELSE (IF out[i].kind = "loss" THEN 1 ELSE 0) + LossLinesFrom(out, i - 1)

LossLines == LossLinesFrom(stdout, Len(stdout))

\* C23: train_loop prints a progress line for a batch exactly when the
\* zero-based batch index is a multiple of 100: the logging statement of batch
\* k adds one "loss" line if k % 100 = 0 and nothing otherwise, so after k
\* batches of an epoch ceil(k / 100) lines are out (one as soon as the first
\* batch is done), an epoch of M batches prints ceil(M / 100) lines, and the
\* 938 batches of 60000 samples give 10 lines.
C23_LogEveryHundred ==
    /\ [][pc = "log" =>
            IF batch % LogEvery = 0
            THEN /\ Len(stdout') = Len(stdout) + 1
                 /\ stdout'[Len(stdout')].kind = "loss"
            ELSE stdout' = stdout]_vars
    /\ [][pc # "log" /\ Len(stdout') > Len(stdout) =>
            stdout'[Len(stdout')].kind # "loss"]_vars
    /\ [](pc \in TrainBody => LossLines = CeilDiv(batch, LogEvery))
    /\ [](pc = "train_next" => LossLines = CeilDiv(batch + 1, LogEvery))
    /\ [](pc = "train_next" /\ batch >= 0 => LossLines >= 1)
    /\ [](pc = "call_test" =>
            LossLines = CeilDiv(NumBatches(training_data.size), LogEvery))
    /\ [](NumBatches(60000) = 938 /\ CeilDiv(938, LogEvery) = 10)

\* the pass over LogEvery + 1 batches is over and has printed two lines, the
\* second one for batch index LogEvery
C23_Witness ==
    /\ pc = "call_test"
    /\ training_data.size = LogEvery * LoaderBatchSize + 1
    /\ batch = LogEvery
    /\ LossLines = 2
    /\ stdout[Len(stdout)].kind = "loss"

\* C24 as stated: the counter printed on a progress line is the number of
\* training samples consumed in the epoch before the logged batch, whatever
\* the size of that batch, and is at most the printed dataset size.
C24_CounterIsConsumed ==
    pc = "train_next" /\ batch >= 0 /\ batch % LogEvery = 0 =>
        /\ stdout[Len(stdout)].kind = "loss"
        /\ stdout[Len(stdout)].current = pos - Len(idxs)
        /\ stdout[Len(stdout)].current <= stdout[Len(stdout)].size

\* the sum over the test set of every sample's own loss: what test_loop
\* accumulates when each batch holds one sample
PerSampleLossSum ==
    LET n == test_data.size
    IN  SumTo([i \in 1..n |->
                  SampleLoss(Row(Forward(params, CollateX(test_data, <<i - 1>>)), 1),
                             Label(test_data.seed, i - 1))], n)

\* C25 as stated: the average loss test_loop reports is the per-sample mean
\* loss over the test set, the value every batching of the set gives (up to
\* the rounding of one batch mean per batch).
C25_AvgLossPerSample ==
    pc = "epoch" /\ hist.evals >= 1 =>
        LET avg == stdout[Len(stdout)].avg_loss
            mean == PerSampleLossSum \div test_data.size
        IN  /\ stdout[Len(stdout)].kind = "test"
            /\ avg <= mean + 1
            /\ avg >= mean - 1

NonNegative(tn) == \A e \in 1..Len(tn.data) : tn.data[e] >= 0
NoPositive(v) == \A k \in 1..Len(v) : v[k] <= 0
AllZero(v) == \A k \in 1..Len(v) : v[k] = 0

\* C26: the last stage of the network is a ReLU, so every score the model
\* (in train_loop and test_loop) or the exported graph returns is >= 0; and
\* for a sample on which the last linear stage gives no class a positive
\* value the score vector is all zeros and the predicted class, the index of
\* the first maximum, is 0.
C26_ScoresClamped ==
    /\ NonNegative(pred)
    /\ NonNegative(inf.result)
    /\ pc \in {"loss", "test_accumulate"} =>
          \A n \in 1..pred.shape[1] :
              NoPositive(Row(LastLinear(params, CollateX(
                  IF pc = "loss" THEN training_data ELSE test_data, idxs)), n)) =>
                  /\ AllZero(Row(pred, n))
                  /\ Argmax(Row(pred, n)) = 0
    /\ ipc \in {"predict", "end"} /\ inf.result # NoTensor =>
          /\ inf.result = ReLU(LastLinear(inf.model, inf.x))
          /\ NoPositive(LastLinear(inf.model, inf.x).data) =>
                /\ AllZero(inf.result.data)
                /\ ipc = "end" => inf.stdout[Len(inf.stdout)].predicted = 0

\* the exported graph was run on a sample for which the last linear stage is
\* negative for a class and positive for none: all scores are zero and class
\* 0 was printed as the prediction
C26_Witness ==
    /\ ipc = "end"
    /\ inf.result # NoTensor
    /\ NoPositive(LastLinear(inf.model, inf.x).data)
    /\ \E k \in 1..NumClasses : LastLinear(inf.model, inf.x).data[k] < 0
    /\ AllZero(inf.result.data)
    /\ inf.stdout[Len(inf.stdout)].predicted = 0
    /\ hist.evals = LoopEpochs

\* C27: the NeuralNetwork of the inference notebook has the stages of the
\* one the optimization notebook trains, in the same order, hence the same
\* parameter names and shapes; so the mapping a completed training run saved
\* has exactly the fresh inference model's names and shapes, and loading it
\* goes on to model.eval() and never raises.
C27_SameArchitecture ==
    /\ [](/\ InferenceStack = OptimizationStack
          /\ StackParamNames(InferenceStack) = StackParamNames(OptimizationStack)
          /\ StackParamShapes(InferenceStack) = StackParamShapes(OptimizationStack)
          /\ StackParamNames(OptimizationStack) = ParamNames
          /\ StackParamShapes(OptimizationStack) = ParamShapes)
    /\ [](hist.fileWrites >= 1 =>
            /\ file.exists
            /\ DOMAIN file.dict = {StackParamNames(InferenceStack)[p] : p \in 1..6}
            /\ \A p \in 1..6 :
                  file.dict[StackParamNames(InferenceStack)[p]].shape
                      = StackParamShapes(InferenceStack)[p]
            /\ ipc # "error")
    /\ [][ipc = "load" /\ hist.fileWrites >= 1 =>
            /\ Matches(file.dict, inf.model)
            /\ ipc' = "eval"
            /\ \A p \in 1..6 : inf'.model[p] = hist.lastStep[p]]_vars

\* the snapshot of a completed run was loaded into a fresh inference model
\* whose own values were different
C27_Witness ==
    /\ ipc = "eval"
    /\ pc = "end"
    /\ hist.fileWrites = 1
    /\ hist.evals = LoopEpochs
    /\ ihist.fresh # inf.model
    /\ inf.model = hist.lastStep

====
